---- MODULE Spec2Model ----
(***************************************************************************)
(* Model of k8s_isi_provisioner.go: the isilonProvisioner's Provision and  *)
(* Delete handlers, driven by the provision controller's workers.  Every   *)
(* call of the Isilon client (and os.MkdirAll) is one atomic step whose    *)
(* outcome is chosen nondeterministically; the Go code between two calls   *)
(* belongs to the step of the call before it.  Go strings are sequences of *)
(* one-character strings.                                                  *)
(***************************************************************************)
EXTENDS Integers, Sequences, FiniteSets, TLC

\* ------------------------------------------------------------------ bounds
\* Requested capacities range over 0..MaxSize.
MaxSize == 1

\* ----------------------------------------------------------------- strings
S_mountoptions == <<"m","o","u","n","t","o","p","t","i","o","n","s">>
S_mountOptions == <<"m","o","u","n","t","O","p","t","i","o","n","s">>
S_MOUNTOPTIONS == <<"M","O","U","N","T","O","P","T","I","O","N","S">>
S_foo == <<"f","o","o">>
S_ro == <<"r","o">>
S_ro_nolock == <<"r","o",",","n","o","l","o","c","k">>

UpperLetters == <<"A","B","C","D","E","F","G","H","I","J","K","L","M",
                  "N","O","P","Q","R","S","T","U","V","W","X","Y","Z">>
LowerLetters == <<"a","b","c","d","e","f","g","h","i","j","k","l","m",
                  "n","o","p","q","r","s","t","u","v","w","x","y","z">>

\* strings.ToLower on one character
LowerChar(c) ==
  IF \E i \in 1..Len(UpperLetters) : UpperLetters[i] = c
  THEN LowerLetters[CHOOSE i \in 1..Len(UpperLetters) : UpperLetters[i] = c]
  ELSE c

\* strings.ToLower(k)
ToLower(s) == [i \in 1..Len(s) |-> LowerChar(s[i])]

\* strings.ToUpper on one character, and strings.ToUpper(s)
UpperChar(c) ==
  IF \E i \in 1..Len(LowerLetters) : LowerLetters[i] = c
  THEN UpperLetters[CHOOSE i \in 1..Len(LowerLetters) : LowerLetters[i] = c]
  ELSE c

ToUpper(s) == [i \in 1..Len(s) |-> UpperChar(s[i])]

\* strings.Join(elems, sep)
RECURSIVE StringsJoin(_, _)
StringsJoin(elems, sep) ==
  IF Len(elems) = 0 THEN <<>>
  ELSE IF Len(elems) = 1 THEN elems[1]
  ELSE elems[1] \o sep \o StringsJoin(Tail(elems), sep)

\* strings.Split(v, sep) for a one-character separator: "" splits into [""]
RECURSIVE SplitFrom(_, _, _)
SplitFrom(s, sep, cur) ==
  IF Len(s) = 0 THEN <<cur>>
  ELSE IF Head(s) = sep THEN <<cur>> \o SplitFrom(Tail(s), sep, <<>>)
  ELSE SplitFrom(Tail(s), sep, Append(cur, Head(s)))

StringsSplit(s, sep) == SplitFrom(s, sep, <<>>)

\* path.Clean restricted to paths without "." and ".." elements: runs of
\* slashes collapse to one and a trailing slash is dropped (except for "/").
RECURSIVE CollapseSlashes(_)
CollapseSlashes(s) ==
  IF Len(s) <= 1 THEN s
  ELSE IF s[1] = "/" /\ s[2] = "/" THEN CollapseSlashes(Tail(s))
  ELSE <<s[1]>> \o CollapseSlashes(Tail(s))

PathClean(s) ==
  LET c == CollapseSlashes(s)
  IN  IF Len(c) = 0 THEN <<".">>
      ELSE IF Len(c) > 1 /\ c[Len(c)] = "/" THEN SubSeq(c, 1, Len(c) - 1)
      ELSE c

\* path.Join(a, b): empty elements are ignored, the result is cleaned
PathJoin(a, b) ==
  IF Len(a) = 0 /\ Len(b) = 0 THEN <<>>
  ELSE IF Len(a) = 0 THEN PathClean(b)
  ELSE IF Len(b) = 0 THEN PathClean(a)
  ELSE PathClean(a \o <<"/">> \o b)

\* ------------------------------------------------------------ input spaces
\* Server names (the provisioner identity is the server name).
Servers == { <<"x">>, <<"y">> }

\* Remote root paths (ISI_PATH).
RootPaths == { <<"/","i">>, <<"/","i","/">> }

\* Namespaces and claim names: DNS labels, which may contain "-".
Names == { <<"a">>, <<"a","-","a">> }

\* Names the controller generates for the PV.
PVNames == { <<"p">>, <<"p","-","a">> }

\* Storage-class parameter keys: mountOptions as documented, the same word in
\* another letter case, and an unrecognized key.
ParamKeys == { S_mountOptions, S_MOUNTOPTIONS, S_foo }
ParamValues == { S_ro, S_ro_nolock }

\* options.Parameters: a map from some of the keys to values
ParameterMaps == UNION { [D -> ParamValues] : D \in SUBSET ParamKeys }

\* controller.VolumeOptions, the fields Provision reads
VolumeOptionsSet ==
  [ Namespace : Names, Name : Names, PVName : PVNames,
    Size : 0..MaxSize, Parameters : ParameterMaps ]

AnnIdentity == "isilonProvisionerIdentity"
AnnVolume == "isilonVolume"

\* The volume names a PV handed to Delete may carry.
VolumeAnnotations == { StringsJoin(<<n, n, <<"p">>>>, <<"-">>) : n \in Names }

\* metadata.annotations of a PV handed to Delete
AnnotationMaps ==
  UNION { { f \in [D -> Servers \cup VolumeAnnotations] :
              /\ (AnnIdentity \in D => f[AnnIdentity] \in Servers)
              /\ (AnnVolume \in D => f[AnnVolume] \in VolumeAnnotations) } :
          D \in SUBSET {AnnIdentity, AnnVolume} }

\* ------------------------------------------------------------------ errors
\* The error values of Go, by dynamic type: text is the message (or the
\* IgnoredError's Reason), key the parameter an invalid-parameter error names.
NoErr == [type |-> "nil", text |-> "", key |-> <<>>]

\* errors.New(text)
ErrorsNew(text) == [type |-> "errorString", text |-> text, key |-> <<>>]

\* &controller.IgnoredError{Reason: reason}
IgnoredError(reason) == [type |-> "IgnoredError", text |-> reason, key |-> <<>>]

\* fmt.Errorf("invalid parameter: %q", k)
ErrInvalidParameter(k) == [type |-> "fmtError", text |-> "invalid parameter", key |-> k]

\* The error a failed call of the Isilon client (or of os.MkdirAll) returns.
CallErr(call) == [type |-> "callError", text |-> call, key |-> <<>>]

\* ------------------------------------------------------------------- state
VARIABLES
  p,        \* the isilonProvisioner: identity, serverName, volumePath, flags
  workers,  \* the controller's workers, each running one call at a time
  pc,       \* pc[t]: where worker t's current call stands
  arg,      \* arg[t]: the call worker t runs and its argument
  trace,    \* trace[t]: the client (and MkdirAll) calls of that call, in order
  ret,      \* ret[t]: what the call returned, once pc[t] = "returned"
  crashed,  \* TRUE once a panic has terminated the process
  vol,      \* vol[t]: what the backend holds under the volume name of t's call
  boot      \* main: how far startup has come, its environment and client

vars == <<p, workers, pc, arg, trace, ret, crashed, vol, boot>>

NoOptions ==
  [ Namespace |-> <<>>, Name |-> <<>>, PVName |-> <<>>, Size |-> 0,
    Parameters |-> <<>> ]
NoVolume == [ Annotations |-> <<>> ]
NoArg == [ op |-> "none", options |-> NoOptions, volume |-> NoVolume ]

\* A call's result: pv is <<>> for a nil *PersistentVolume, <<pv>> otherwise.
NoRet == [ pv |-> <<>>, err |-> NoErr ]

\* What a step does next: go on at a label, return, or panic.
Goto(label) == [ pc |-> label, ret |-> NoRet, crash |-> FALSE ]
Return(pv, err) == [ pc |-> "returned", ret |-> [pv |-> pv, err |-> err], crash |-> FALSE ]
Panic == [ pc |-> "panic", ret |-> NoRet, crash |-> TRUE ]

\* One client call as recorded in the trace.
Call(call, name, size, ok, found) ==
  [ call |-> call, name |-> name, size |-> size, ok |-> ok, found |-> found ]

\* What the backend holds under one volume name: the volume, a quota on it,
\* an export of it.  provisioned tells that a Provision of this process
\* created the volume.  The model follows the one name a call works on.
NoVol ==
  [ name |-> <<>>, exists |-> FALSE, quota |-> FALSE, export |-> FALSE,
    provisioned |-> FALSE ]

\* The effect of the client call c on the backend's objects named c.name.
BackendEffect(v, c) ==
  IF ~c.ok THEN v
  ELSE CASE c.call = "CreateVolume" ->
              [v EXCEPT !.name = c.name, !.exists = TRUE, !.provisioned = TRUE]
         [] c.call = "SetQuotaSize" -> [v EXCEPT !.quota = TRUE]
         [] c.call = "ExportVolume" -> [v EXCEPT !.export = TRUE]
         [] c.call = "ClearQuota" -> [v EXCEPT !.quota = FALSE]
         [] c.call = "Unexport" -> [v EXCEPT !.export = FALSE]
         [] c.call = "DeleteVolume" -> [v EXCEPT !.exists = FALSE]
         [] OTHER -> v

\* What GetQuota can return when the backend holds (or not) a quota: a
\* descriptor only for a quota that exists, and nil without an error only
\* when there is none.
GetQuotaOutcomes(v) ==
  { o \in [ok : BOOLEAN, found : BOOLEAN] :
      /\ o.found => v.quota
      /\ (o.ok /\ ~o.found) => ~v.quota }

\* The states the backend can be in for the volume name of a PV that the
\* controller hands to Delete.
VolStates(name) ==
  [ name : {name}, exists : BOOLEAN, quota : BOOLEAN, export : BOOLEAN,
    provisioned : {FALSE} ]

\* The process environment main reads; os.Getenv gives "" for an unset name.
NoEnv ==
  [ ISI_SERVER |-> <<>>, ISI_PATH |-> <<>>, ISI_ACCESSPATH |-> <<>>,
    ISI_USER |-> <<>>, ISI_PASS |-> <<>>, ISI_GROUP |-> <<>>,
    ISI_QUOTA_ENABLE |-> <<>>, ISI_EXPORTS_ENABLE |-> <<>> ]

\* The arguments of isi.NewClientWithArgs, once main has called it.
NoClient ==
  [ endpoint |-> <<>>, user |-> <<>>, group |-> <<>>, pass |-> <<>>,
    accessPath |-> <<>>, path |-> <<>> ]

\* Startup is over: the controller runs.  (The environment is of no
\* interest any more.)
Serving ==
  [ stage |-> "serving", env |-> NoEnv, fatal |-> "", client |-> NoClient ]

\* The provisioner main constructs.
Provisioners ==
  { [ identity |-> s, serverName |-> s, volumePath |-> r,
      exportsEnable |-> e, quotaEnable |-> q ] :
    s \in Servers, r \in RootPaths, e \in BOOLEAN, q \in BOOLEAN }

InitWorkers(n) ==
  /\ p \in Provisioners
  /\ workers = 1..n
  /\ pc = [t \in 1..n |-> "idle"]
  /\ arg = [t \in 1..n |-> NoArg]
  /\ trace = [t \in 1..n |-> <<>>]
  /\ ret = [t \in 1..n |-> NoRet]
  /\ crashed = FALSE
  /\ vol = [t \in 1..n |-> NoVol]
  /\ boot = Serving

Init == InitWorkers(1)

\* Worker t's call records the client call c and goes on as nx says.
Step(t, c, nx) ==
  /\ trace' = [trace EXCEPT ![t] = Append(@, c)]
  /\ pc' = [pc EXCEPT ![t] = nx.pc]
  /\ ret' = [ret EXCEPT ![t] = nx.ret]
  /\ crashed' = (crashed \/ nx.crash)
  /\ vol' = [vol EXCEPT ![t] = BackendEffect(@, c)]
  /\ UNCHANGED <<p, workers, arg, boot>>

\* --------------------------------------------------------------- Provision
\* pvName := strings.Join([]string{pvcNamespace, pvcName, options.PVName}, "-")
PvName(options) ==
  StringsJoin(<<options.Namespace, options.Name, options.PVName>>, <<"-">>)

\* path := path.Join(p.volumePath, pvName)
MountPath(pp, options) == PathJoin(pp.volumePath, PvName(options))

\* if p.exportsEnable { ExportVolume ... }; then os.MkdirAll
ProvisionAfterQuota(pp) ==
  IF pp.exportsEnable THEN Goto("ExportVolume") ELSE Goto("MkdirAll")

\* ProvisionAfterCreate with the size test written pvcSize < 0.
ProvisionAfterCreate_NegativeOnly(pp, options) ==
  IF pp.quotaEnable
  THEN IF options.Size < 0
       THEN Return(<<>>, ErrorsNew("No storage size requested and quotas enabled"))
       ELSE Goto("SetQuotaSize")
  ELSE ProvisionAfterQuota(pp)

\* if p.quotaEnable { if pvcSize <= 0 { return nil, errors.New(...) }; SetQuotaSize }
ProvisionAfterCreate(pp, options) ==
  IF pp.quotaEnable
  THEN IF options.Size <= 0
       THEN Return(<<>>, ErrorsNew("No storage size requested and quotas enabled"))
       ELSE Goto("SetQuotaSize")
  ELSE ProvisionAfterQuota(pp)

\* ProvisionOnCreate without the test of CreateVolume's error.
ProvisionOnCreate_ErrIgnored(pp, options, ok) == ProvisionAfterCreate(pp, options)

\* rcVolume, err := CreateVolume(...); if err != nil { return nil, err }
ProvisionOnCreate(pp, options, ok) ==
  IF ok THEN ProvisionAfterCreate(pp, options)
  ELSE Return(<<>>, CallErr("CreateVolume"))

\* ProvisionOnSetQuota leaving the export block out.
ProvisionOnSetQuota_SkipsExport(pp, ok) == Goto("MkdirAll")

\* err := SetQuotaSize(...): a failure is logged and provisioning goes on
ProvisionOnSetQuota(pp, ok) == ProvisionAfterQuota(pp)

\* rcExport, err := ExportVolume(...); if err != nil { panic(err) }
ProvisionOnExport(ok) == IF ok THEN Goto("MkdirAll") ELSE Panic

\* ParameterCase with the default case missing: every key is taken.
ParameterCase_NoDefault(k) == "mountoptions"

\* switch strings.ToLower(k) { case "mountoptions": ...; default: ... }
ParameterCase(k) ==
  IF ToLower(k) = S_mountoptions THEN "mountoptions" ELSE "default"

\* for k, v := range options.Parameters { ... }: the map is visited in an
\* unspecified order, so the loop has a set of possible outcomes.  A key of
\* the default case ends the loop with an error whichever key comes first;
\* otherwise mountOptions is the split value of the key visited last.
ParameterLoop(params) ==
  LET invalid == { k \in DOMAIN params : ParameterCase(k) = "default" }
  IN  IF invalid # {}
      THEN { [err |-> ErrInvalidParameter(k), mountOptions |-> <<>>] : k \in invalid }
      ELSE IF DOMAIN params = {}
      THEN { [err |-> NoErr, mountOptions |-> <<>>] }
      ELSE { [err |-> NoErr, mountOptions |-> StringsSplit(params[k], ",")] :
             k \in DOMAIN params }

\* NewPV with the isilonVolume annotation set to the PV's name.
NewPV_AnnotatesPVName(pp, options, mountOptions) ==
  [ Name |-> options.PVName,
    Annotations |-> (AnnIdentity :> pp.identity) @@ (AnnVolume :> options.PVName),
    Capacity |-> options.Size,
    MountOptions |-> mountOptions,
    Server |-> pp.serverName,
    Path |-> MountPath(pp, options) ]

\* pv := &v1.PersistentVolume{...}
NewPV(pp, options, mountOptions) ==
  [ Name |-> options.PVName,
    Annotations |-> (AnnIdentity :> pp.identity) @@ (AnnVolume :> PvName(options)),
    Capacity |-> options.Size,
    MountOptions |-> mountOptions,
    Server |-> pp.serverName,
    Path |-> MountPath(pp, options) ]

\* ProvisionOnMkdir rolling the volume back when the mount path or the
\* parameters fail.
ProvisionOnMkdir_RollsBack(pp, options, ok, loop) ==
  IF ~ok \/ loop.err # NoErr THEN Goto("DeleteVolume")
  ELSE Return(<<NewPV(pp, options, loop.mountOptions)>>, NoErr)

\* if err := os.MkdirAll(path, 0777); err != nil { return nil, err };
\* then the parameter loop and return pv, nil
ProvisionOnMkdir(pp, options, ok, loop) ==
  IF ~ok THEN Return(<<>>, CallErr("MkdirAll"))
  ELSE IF loop.err # NoErr THEN Return(<<>>, loop.err)
  ELSE Return(<<NewPV(pp, options, loop.mountOptions)>>, NoErr)

\* The controller calls Provision(options).
Provision(t, options) ==
  /\ ~crashed
  /\ pc[t] = "idle"
  /\ arg' = [arg EXCEPT ![t] = [op |-> "Provision", options |-> options, volume |-> NoVolume]]
  /\ trace' = [trace EXCEPT ![t] = <<>>]
  /\ ret' = [ret EXCEPT ![t] = NoRet]
  /\ pc' = [pc EXCEPT ![t] = "CreateVolume"]
  /\ vol' = [vol EXCEPT ![t] = NoVol]
  /\ UNCHANGED <<p, workers, crashed, boot>>

CreateVolume(t) ==
  /\ ~crashed
  /\ pc[t] = "CreateVolume"
  /\ \E ok \in BOOLEAN :
       Step(t, Call("CreateVolume", PvName(arg[t].options), 0, ok, FALSE),
            ProvisionOnCreate(p, arg[t].options, ok))

SetQuotaSize(t) ==
  /\ ~crashed
  /\ pc[t] = "SetQuotaSize"
  /\ \E ok \in BOOLEAN :
       Step(t, Call("SetQuotaSize", PvName(arg[t].options), arg[t].options.Size, ok, FALSE),
            ProvisionOnSetQuota(p, ok))

ExportVolume(t) ==
  /\ ~crashed
  /\ pc[t] = "ExportVolume"
  /\ \E ok \in BOOLEAN :
       Step(t, Call("ExportVolume", PvName(arg[t].options), 0, ok, FALSE),
            ProvisionOnExport(ok))

MkdirAll(t) ==
  /\ ~crashed
  /\ pc[t] = "MkdirAll"
  /\ \E ok \in BOOLEAN, loop \in ParameterLoop(arg[t].options.Parameters) :
       Step(t, Call("MkdirAll", MountPath(p, arg[t].options), 0, ok, FALSE),
            ProvisionOnMkdir(p, arg[t].options, ok, loop))

\* ------------------------------------------------------------------ Delete
\* DeleteChecks without the comparison of the annotation with p.identity.
DeleteChecks_NoCompare(pp, volume) ==
  LET ann == volume.Annotations
  IN  IF AnnIdentity \notin DOMAIN ann
      THEN ErrorsNew("identity annotation not found on PV")
      ELSE IF AnnVolume \notin DOMAIN ann
      THEN IgnoredError("No isilon volume defined")
      ELSE NoErr

\* DeleteChecks looking for the volume annotation before comparing identities.
DeleteChecks_VolumeFirst(pp, volume) ==
  LET ann == volume.Annotations
  IN  IF AnnIdentity \notin DOMAIN ann
      THEN ErrorsNew("identity annotation not found on PV")
      ELSE IF AnnVolume \notin DOMAIN ann
      THEN IgnoredError("No isilon volume defined")
      ELSE IF ann[AnnIdentity] # pp.identity
      THEN IgnoredError("identity annotation on PV does not match ours")
      ELSE NoErr

\* DeleteChecks without the test of the volume annotation's presence.
DeleteChecks_NoVolumeTest(pp, volume) ==
  LET ann == volume.Annotations
  IN  IF AnnIdentity \notin DOMAIN ann
      THEN ErrorsNew("identity annotation not found on PV")
      ELSE IF ann[AnnIdentity] # pp.identity
      THEN IgnoredError("identity annotation on PV does not match ours")
      ELSE NoErr

\* The checks Delete makes before it touches the backend; NoErr lets it go on.
DeleteChecks(pp, volume) ==
  LET ann == volume.Annotations
  IN  IF AnnIdentity \notin DOMAIN ann
      THEN ErrorsNew("identity annotation not found on PV")
      ELSE IF ann[AnnIdentity] # pp.identity
      THEN IgnoredError("identity annotation on PV does not match ours")
      ELSE IF AnnVolume \notin DOMAIN ann
      THEN IgnoredError("No isilon volume defined")
      ELSE NoErr

\* DeleteAfterQuota without the export block.
DeleteAfterQuota_SkipsUnexport(pp) == Goto("DeleteVolume")

\* if p.exportsEnable { Unexport ... }; then DeleteVolume
DeleteAfterQuota(pp) ==
  IF pp.exportsEnable THEN Goto("Unexport") ELSE Goto("DeleteVolume")

\* DeleteNext with the two blocks exchanged: Unexport, then the quota, then
\* DeleteVolume.
DeleteNext_ExportFirst(pp, at, ok, found) ==
  LET quota == IF pp.quotaEnable THEN Goto("GetQuota") ELSE Goto("DeleteVolume")
  IN  CASE at = "checks" ->
             IF pp.exportsEnable THEN Goto("Unexport") ELSE quota
        [] at = "Unexport" -> IF ok THEN quota ELSE Panic
        [] at = "GetQuota" ->
             IF found THEN Goto("ClearQuota") ELSE Goto("DeleteVolume")
        [] at = "ClearQuota" -> IF ok THEN Goto("DeleteVolume") ELSE Panic
        [] at = "DeleteVolume" -> IF ok THEN Return(<<>>, NoErr) ELSE Panic

\* DeleteNext taking GetQuota's error for a failure of the deletion.
DeleteNext_GetQuotaErrChecked(pp, at, ok, found) ==
  CASE at = "checks" ->
         IF pp.quotaEnable THEN Goto("GetQuota") ELSE DeleteAfterQuota(pp)
    [] at = "GetQuota" ->
         IF ~ok THEN Return(<<>>, CallErr("GetQuota"))
         ELSE IF found THEN Goto("ClearQuota") ELSE DeleteAfterQuota(pp)
    [] at = "ClearQuota" -> IF ok THEN DeleteAfterQuota(pp) ELSE Panic
    [] at = "Unexport" -> IF ok THEN Goto("DeleteVolume") ELSE Panic
    [] at = "DeleteVolume" -> IF ok THEN Return(<<>>, NoErr) ELSE Panic

\* The teardown after the checks: where Delete goes on after the step `at`
\* ("checks", or the client call that just returned) with outcome ok/found.
DeleteNext(pp, at, ok, found) ==
  CASE at = "checks" ->
         IF pp.quotaEnable THEN Goto("GetQuota") ELSE DeleteAfterQuota(pp)
    [] at = "GetQuota" ->      \* quota, _ := GetQuota(...); if quota != nil
         IF found THEN Goto("ClearQuota") ELSE DeleteAfterQuota(pp)
    [] at = "ClearQuota" ->    \* if err := ClearQuota(...); err != nil { panic(err) }
         IF ok THEN DeleteAfterQuota(pp) ELSE Panic
    [] at = "Unexport" ->      \* if err := Unexport(...); err != nil { panic(err) }
         IF ok THEN Goto("DeleteVolume") ELSE Panic
    [] at = "DeleteVolume" ->  \* if err := DeleteVolume(...); err != nil { panic(err) }
         IF ok THEN Return(<<>>, NoErr) ELSE Panic

\* IsiVolume reading the identity annotation.
IsiVolume_ReadsIdentity(volume) ==
  IF AnnIdentity \in DOMAIN volume.Annotations
  THEN volume.Annotations[AnnIdentity] ELSE <<>>

\* isiVolume, ok := volume.Annotations["isilonVolume"]
IsiVolume(volume) ==
  IF AnnVolume \in DOMAIN volume.Annotations
  THEN volume.Annotations[AnnVolume] ELSE <<>>

\* Delete(volume) up to its first client call: the checks, then the teardown.
DeleteEnter(t, volume) ==
  /\ arg' = [arg EXCEPT ![t] = [op |-> "Delete", options |-> NoOptions, volume |-> volume]]
  /\ trace' = [trace EXCEPT ![t] = <<>>]
  /\ LET err == DeleteChecks(p, volume)
         nx == IF err # NoErr THEN Return(<<>>, err)
               ELSE DeleteNext(p, "checks", TRUE, FALSE)
     IN  /\ pc' = [pc EXCEPT ![t] = nx.pc]
         /\ ret' = [ret EXCEPT ![t] = nx.ret]
  /\ UNCHANGED <<p, workers, crashed, boot>>

\* The controller calls Delete(volume) for a PV of the cluster, whoever made
\* it: the checks run before any client call.
Delete(t, volume) ==
  /\ ~crashed
  /\ pc[t] = "idle"
  /\ vol' \in { [vol EXCEPT ![t] = v] : v \in VolStates(IsiVolume(volume)) }
  /\ DeleteEnter(t, volume)

\* The PV that worker t's Provision has just returned is released later on,
\* and the controller calls Delete on it; the backend still holds what the
\* Provision left under its name.
Release(t) ==
  /\ ~crashed
  /\ pc[t] = "returned"
  /\ arg[t].op = "Provision"
  /\ ret[t].pv # <<>>
  /\ vol' = vol
  /\ DeleteEnter(t, [Annotations |-> ret[t].pv[1].Annotations])

\* GetQuota returns a descriptor or nil, and an error or nil.
GetQuota(t) ==
  /\ ~crashed
  /\ pc[t] = "GetQuota"
  /\ \E o \in GetQuotaOutcomes(vol[t]) :
       Step(t, Call("GetQuota", IsiVolume(arg[t].volume), 0, o.ok, o.found),
            DeleteNext(p, "GetQuota", o.ok, o.found))

ClearQuota(t) ==
  /\ ~crashed
  /\ pc[t] = "ClearQuota"
  /\ \E ok \in BOOLEAN :
       Step(t, Call("ClearQuota", IsiVolume(arg[t].volume), 0, ok, FALSE),
            DeleteNext(p, "ClearQuota", ok, FALSE))

Unexport(t) ==
  /\ ~crashed
  /\ pc[t] = "Unexport"
  /\ \E ok \in BOOLEAN :
       Step(t, Call("Unexport", IsiVolume(arg[t].volume), 0, ok, FALSE),
            DeleteNext(p, "Unexport", ok, FALSE))

DeleteVolume(t) ==
  /\ ~crashed
  /\ pc[t] = "DeleteVolume"
  /\ \E ok \in BOOLEAN :
       Step(t, Call("DeleteVolume", IsiVolume(arg[t].volume), 0, ok, FALSE),
            DeleteNext(p, "DeleteVolume", ok, FALSE))

\* ------------------------------------------------------------- controller
\* The controller has the call's result and the worker is free for the next.
Done(t) ==
  /\ ~crashed
  /\ pc[t] = "returned"
  /\ pc' = [pc EXCEPT ![t] = "idle"]
  /\ arg' = [arg EXCEPT ![t] = NoArg]
  /\ trace' = [trace EXCEPT ![t] = <<>>]
  /\ ret' = [ret EXCEPT ![t] = NoRet]
  /\ vol' = [vol EXCEPT ![t] = NoVol]
  /\ UNCHANGED <<p, workers, crashed, boot>>

\* ----------------------------------------------------------- specification
Next ==
  \/ \E t \in workers, options \in VolumeOptionsSet : Provision(t, options)
  \/ \E t \in workers : CreateVolume(t)
  \/ \E t \in workers : SetQuotaSize(t)
  \/ \E t \in workers : ExportVolume(t)
  \/ \E t \in workers : MkdirAll(t)
  \/ \E t \in workers, volume \in [Annotations : AnnotationMaps] : Delete(t, volume)
  \/ \E t \in workers : GetQuota(t)
  \/ \E t \in workers : ClearQuota(t)
  \/ \E t \in workers : Unexport(t)
  \/ \E t \in workers : DeleteVolume(t)
  \/ \E t \in workers : Done(t)
  \/ \E t \in workers : Release(t)

Spec == Init /\ [][Next]_vars

\* -------------------------------------------------------------------- main
S_TRUE == <<"T","R","U","E">>
S_True == <<"T","r","u","e">>
S_no == <<"n","o">>
S_https == <<"h","t","t","p","s",":","/","/">>
S_port == <<":","8","0","8","0">>

\* The environments main may start in.
Envs ==
  [ ISI_SERVER : {<<>>} \cup Servers,
    ISI_PATH : {<<>>} \cup RootPaths,
    ISI_ACCESSPATH : {<<>>, <<"/","a">>},
    ISI_USER : {<<>>, <<"u">>},
    ISI_PASS : {<<>>, <<"s">>},
    ISI_GROUP : {<<>>, <<"g">>},
    ISI_QUOTA_ENABLE : {<<>>, S_True, S_no},
    ISI_EXPORTS_ENABLE : {<<>>, S_True, S_no} ]

NoProvisioner ==
  [ identity |-> <<>>, serverName |-> <<>>, volumePath |-> <<>>,
    exportsEnable |-> FALSE, quotaEnable |-> FALSE ]

\* The tests of the environment: the glog.Fatal message, or "" to go on.
\* The test before "ISI_GROUP not set" reads isiPass.
MainCheckEnv(env) ==
  IF env.ISI_SERVER = <<>> THEN "ISI_SERVER not set"
  ELSE IF env.ISI_PATH = <<>> THEN "ISI_PATH not set"
  ELSE IF env.ISI_USER = <<>> THEN "ISI_USER not set"
  ELSE IF env.ISI_PASS = <<>> THEN "ISI_PASS not set"
  ELSE IF env.ISI_PASS = <<>> THEN "ISI_GROUP not set"
  ELSE ""

\* isiAccessPath: ISI_ACCESSPATH, or isiPath when that is empty
MainAccessPath(env) ==
  IF env.ISI_ACCESSPATH = <<>> THEN env.ISI_PATH ELSE env.ISI_ACCESSPATH

\* isiQuota, isiExports: true exactly for the value TRUE in any letter case
MainFlag(value) == ToUpper(value) = S_TRUE

\* isi.NewClientWithArgs(ctx, isiEndpoint, true, isiUser, isiGroup, isiPass,
\* isiAccessPath, isiPath)
MainClient(env) ==
  [ endpoint |-> S_https \o env.ISI_SERVER \o S_port,
    user |-> env.ISI_USER, group |-> env.ISI_GROUP, pass |-> env.ISI_PASS,
    accessPath |-> MainAccessPath(env), path |-> env.ISI_PATH ]

\* isilonProvisioner := &isilonProvisioner{...}
MainProvisioner(env) ==
  [ identity |-> env.ISI_SERVER, serverName |-> env.ISI_SERVER,
    volumePath |-> env.ISI_PATH,
    exportsEnable |-> MainFlag(env.ISI_EXPORTS_ENABLE),
    quotaEnable |-> MainFlag(env.ISI_QUOTA_ENABLE) ]

InitMain ==
  /\ boot \in [ stage : {"start"}, env : Envs, fatal : {""}, client : {NoClient} ]
  /\ p = NoProvisioner
  /\ workers = {}
  /\ pc = <<>>
  /\ arg = <<>>
  /\ trace = <<>>
  /\ ret = <<>>
  /\ vol = <<>>
  /\ crashed = FALSE

\* rest.InClusterConfig, kubernetes.NewForConfig, ServerVersion: a failure
\* of any of them is fatal.
MainKube ==
  /\ boot.stage = "start"
  /\ \E ok \in BOOLEAN :
       boot' = IF ok THEN [boot EXCEPT !.stage = "env"]
               ELSE [boot EXCEPT !.stage = "fatal", !.fatal = "Failed to reach the cluster"]
  /\ UNCHANGED <<p, workers, pc, arg, trace, ret, crashed, vol>>

\* The environment is read and tested; glog.Fatal ends the process.
MainEnv ==
  /\ boot.stage = "env"
  /\ LET msg == MainCheckEnv(boot.env)
     IN  boot' = IF msg = "" THEN [boot EXCEPT !.stage = "connect"]
                 ELSE [boot EXCEPT !.stage = "fatal", !.fatal = msg]
  /\ UNCHANGED <<p, workers, pc, arg, trace, ret, crashed, vol>>

\* The client is created (a failure panics), the provisioner constructed
\* and the controller run.
MainConnect ==
  /\ boot.stage = "connect"
  /\ \E ok \in BOOLEAN :
       IF ok
       THEN /\ boot' = [boot EXCEPT !.stage = "serving", !.client = MainClient(boot.env)]
            /\ p' = MainProvisioner(boot.env)
            /\ crashed' = FALSE
       ELSE /\ boot' = [boot EXCEPT !.stage = "panic", !.client = MainClient(boot.env)]
            /\ p' = p
            /\ crashed' = TRUE
  /\ UNCHANGED <<workers, pc, arg, trace, ret, vol>>

NextMain == MainKube \/ MainEnv \/ MainConnect

SpecMain == InitMain /\ [][NextMain]_vars

\* ------------------------------------------------- two workers at a time
\* The controller runs its workers concurrently.  Two of them are followed
\* here, on fewer inputs: one root path and server, requests without
\* parameters for one PV name, and PVs that carry both annotations.
ConcOptions ==
  { o \in VolumeOptionsSet : o.PVName = <<"p">> /\ DOMAIN o.Parameters = {} }

ConcVolumes ==
  { v \in [Annotations : AnnotationMaps] :
      DOMAIN v.Annotations = {AnnIdentity, AnnVolume} }

InitConc ==
  /\ InitWorkers(2)
  /\ p.identity = <<"x">>
  /\ p.volumePath = <<"/","i">>

\* One step of worker t's call in progress.
CallStep(t) ==
  \/ CreateVolume(t)
  \/ SetQuotaSize(t)
  \/ ExportVolume(t)
  \/ MkdirAll(t)
  \/ GetQuota(t)
  \/ ClearQuota(t)
  \/ Unexport(t)
  \/ DeleteVolume(t)

NextConc ==
  \/ \E t \in workers, options \in ConcOptions : Provision(t, options)
  \/ \E t \in workers, volume \in ConcVolumes : Delete(t, volume)
  \/ \E t \in workers : CreateVolume(t)
  \/ \E t \in workers : SetQuotaSize(t)
  \/ \E t \in workers : ExportVolume(t)
  \/ \E t \in workers : MkdirAll(t)
  \/ \E t \in workers : GetQuota(t)
  \/ \E t \in workers : ClearQuota(t)
  \/ \E t \in workers : Unexport(t)
  \/ \E t \in workers : DeleteVolume(t)
  \/ \E t \in workers : Done(t)

SpecConc == InitConc /\ [][NextConc]_vars

\* ------------------------------------------------------ claims: vocabulary
Destructive == {"ClearQuota", "Unexport", "DeleteVolume"}

IsProvision(t) == arg[t].op = "Provision"
IsDelete(t) == arg[t].op = "Delete"
Ann(t) == arg[t].volume.Annotations
HasTag(t) == AnnIdentity \in DOMAIN Ann(t)
HasVolumeName(t) == AnnVolume \in DOMAIN Ann(t)
Owned(t) == HasTag(t) /\ Ann(t)[AnnIdentity] = p.identity

Returned(t) == pc[t] = "returned"
Finished(t) == pc[t] \in {"returned", "panic"}

\* The names of the calls made so far, in order, and the last call made.
CallNames(t) == [i \in 1..Len(trace[t]) |-> trace[t][i].call]
LastCall(t) == trace[t][Len(trace[t])]
Made(t, call) == \E i \in 1..Len(trace[t]) : trace[t][i].call = call
Failed(t, call) ==
  \E i \in 1..Len(trace[t]) : trace[t][i].call = call /\ ~trace[t][i].ok

IsDestructive(c) == c \in Destructive
DestructiveCalls(t) == SelectSeq(CallNames(t), IsDestructive)

IsPrefix(s, full) == Len(s) <= Len(full) /\ s = SubSeq(full, 1, Len(s))

\* ---------------------------------------------------------------------- C1
\* C1: in every Delete, ClearQuota, Unexport and DeleteVolume are called only
\* for a record whose ownership tag equals the provisioner's identity and
\* that carries a backend volume name, whatever the quota and export flags.
C1_DestructiveOnlyIfOwned ==
  \A t \in workers :
    (IsDelete(t) /\ \E c \in Destructive : Made(t, c) \/ pc[t] = c)
      => Owned(t) /\ HasVolumeName(t)

C1_Witness ==
  \E t \in workers :
    /\ IsDelete(t) /\ Owned(t) /\ HasVolumeName(t)
    /\ DestructiveCalls(t) = <<"ClearQuota", "Unexport", "DeleteVolume">>

\* ---------------------------------------------------------------------- C2
\* C2: Delete of a record without ownership tag fails with an error of the
\* ignorable class (IgnoredError), as the not-mine and nothing-to-delete
\* outcomes do, and not with an ordinary error.
C2_MissingTagIsIgnorable ==
  \A t \in workers :
    (IsDelete(t) /\ ~HasTag(t))
      => Returned(t) /\ ret[t].err.type = "IgnoredError"

\* ---------------------------------------------------------------------- C3
\* C3: Delete of a record whose tag is present and differs from the identity
\* returns the ignorable not-mine error and makes no client call at all,
\* whatever the flags and whether or not the record names a volume.
C3_NotMineIsIgnoredWithoutCalls ==
  \A t \in workers :
    (IsDelete(t) /\ HasTag(t) /\ ~Owned(t))
      => /\ Returned(t)
         /\ ret[t].err = IgnoredError("identity annotation on PV does not match ours")
         /\ trace[t] = <<>>

C3_Witness ==
  \E t \in workers :
    /\ IsDelete(t) /\ HasTag(t) /\ ~Owned(t) /\ ~HasVolumeName(t)
    /\ p.quotaEnable /\ p.exportsEnable
    /\ Returned(t) /\ ret[t].err.type = "IgnoredError"

\* ---------------------------------------------------------------------- C4
\* C4: Delete of a record with a matching tag and no backend volume name
\* returns the ignorable nothing-to-delete error and makes no client call.
C4_NoVolumeNameIsIgnoredWithoutCalls ==
  \A t \in workers :
    (IsDelete(t) /\ Owned(t) /\ ~HasVolumeName(t))
      => /\ Returned(t)
         /\ ret[t].err = IgnoredError("No isilon volume defined")
         /\ trace[t] = <<>>

C4_Witness ==
  \E t \in workers :
    /\ IsDelete(t) /\ Owned(t) /\ ~HasVolumeName(t)
    /\ p.quotaEnable /\ p.exportsEnable
    /\ Returned(t) /\ ret[t].err.type = "IgnoredError"

\* ---------------------------------------------------------------------- C5
\* The Delete calls C5 is about: an owned record, both flags enabled, and
\* GetQuota has returned a quota descriptor.
C5_Case(t) ==
  /\ IsDelete(t) /\ Owned(t) /\ HasVolumeName(t)
  /\ p.quotaEnable /\ p.exportsEnable
  /\ \E i \in 1..Len(trace[t]) : trace[t][i].call = "GetQuota" /\ trace[t][i].found

\* The destructive calls of worker t's Delete follow `order`: a prefix of it
\* at every moment, all of it when Delete has returned success.
C5_Follows(t, order) ==
  /\ IsPrefix(DestructiveCalls(t), order)
  /\ (Returned(t) /\ ret[t].err = NoErr) => DestructiveCalls(t) = order

C6_TeardownFailureIsReturned ==
  \A t \in workers :
    (IsDelete(t) /\ \E c \in Destructive : Failed(t, c))
      => /\ Returned(t) /\ ret[t].err # NoErr
         /\ ~crashed
         /\ ~LastCall(t).ok

\* ---------------------------------------------------------------------- C7
\* C7: when ExportVolume fails in Provision, Provision returns an error and
\* no record, makes no further call (no MkdirAll), and the process keeps
\* running.
C7_ExportFailureIsReturned ==
  \A t \in workers :
    (IsProvision(t) /\ Failed(t, "ExportVolume"))
      => /\ Returned(t) /\ ret[t].err # NoErr /\ ret[t].pv = <<>>
         /\ ~crashed
         /\ LastCall(t).call = "ExportVolume"

\* ---------------------------------------------------------------------- C8
\* C8: with quota enabled and requested capacity 0, a Provision whose
\* CreateVolume succeeded fails with the no-size error, returns no record,
\* and makes no call after CreateVolume (no SetQuotaSize, ExportVolume,
\* MkdirAll).
C8_Case(t) ==
  /\ IsProvision(t) /\ p.quotaEnable /\ arg[t].options.Size = 0
  /\ Len(trace[t]) >= 1
  /\ trace[t][1].call = "CreateVolume" /\ trace[t][1].ok

C8_ZeroSizeWithQuotaFails ==
  \A t \in workers :
    C8_Case(t)
      => /\ Returned(t)
         /\ ret[t].err = ErrorsNew("No storage size requested and quotas enabled")
         /\ ret[t].pv = <<>>
         /\ CallNames(t) = <<"CreateVolume">>

C8_Witness ==
  \E t \in workers : C8_Case(t) /\ p.exportsEnable /\ Returned(t)

\* ---------------------------------------------------------------------- C9
\* The request has a parameter key that is not the spec's "mountOptions".
C9_HasOtherKey(t) ==
  \E k \in DOMAIN arg[t].options.Parameters : k # S_mountOptions

\* The request has a key that is not mountOptions in any letter case.
C9_HasUnknownKey(t) ==
  \E k \in DOMAIN arg[t].options.Parameters : ToLower(k) # S_mountoptions

\* C9 as stated: a Provision whose parameters hold any key other than
\* mountOptions always ends with the invalid-parameter error, for every
\* setting of the flags and every capacity.  It is stated here for the runs
\* in which no call fails, the reading most favourable to the claim.
C9_OtherKeyAlwaysInvalidParameter ==
  \A t \in workers :
    (/\ IsProvision(t) /\ C9_HasOtherKey(t) /\ Finished(t)
     /\ \A i \in 1..Len(trace[t]) : trace[t][i].ok)
      => Returned(t) /\ ret[t].err.text = "invalid parameter"

\* C9 amended: a Provision whose parameters hold a key that is not
\* mountOptions in any letter case never returns a record; it returns the
\* invalid-parameter error, naming such a key, whenever it gets as far as
\* the parameters (MkdirAll has succeeded), and the error of the step that
\* stopped it otherwise.
C9_UnknownKeyNeverSucceeds ==
  \A t \in workers :
    (IsProvision(t) /\ C9_HasUnknownKey(t) /\ Returned(t))
      => /\ ret[t].pv = <<>> /\ ret[t].err # NoErr
         /\ (LastCall(t).call = "MkdirAll" /\ LastCall(t).ok)
              => \E k \in DOMAIN arg[t].options.Parameters :
                   /\ ToLower(k) # S_mountoptions
                   /\ ret[t].err = ErrInvalidParameter(k)

C9_Witness ==
  \E t \in workers :
    /\ IsProvision(t) /\ C9_HasUnknownKey(t) /\ Returned(t)
    /\ p.quotaEnable /\ p.exportsEnable
    /\ CallNames(t) = <<"CreateVolume", "SetQuotaSize", "ExportVolume", "MkdirAll">>
    /\ ret[t].err = ErrInvalidParameter(S_foo)

\* --------------------------------------------------------------------- C10
\* C10: a failed SetQuotaSize does not fail Provision, which goes on with
\* the export (if enabled), the mount path and the parameters and returns a
\* record if those succeed; and no other failed client call of Provision or
\* Delete goes unreported: a call that returned success had no failed call
\* but SetQuotaSize.
C10_OnlySetQuotaFailureIsSwallowed ==
  \A t \in workers :
    /\ (IsProvision(t) /\ Failed(t, "SetQuotaSize") /\ LastCall(t).call = "SetQuotaSize")
         => pc[t] = (IF p.exportsEnable THEN "ExportVolume" ELSE "MkdirAll")
    /\ (/\ IsProvision(t) /\ Failed(t, "SetQuotaSize") /\ Returned(t)
        /\ LastCall(t).call = "MkdirAll" /\ LastCall(t).ok
        /\ ~C9_HasUnknownKey(t))
         => ret[t].pv # <<>> /\ ret[t].err = NoErr
    /\ (Returned(t) /\ ret[t].err = NoErr)
         => \A i \in 1..Len(trace[t]) :
              ~trace[t][i].ok => trace[t][i].call = "SetQuotaSize"

\* --------------------------------------------------------------------- C11
\* C11: when CreateVolume fails, Provision returns that error and no
\* record, and makes no other call: no SetQuotaSize, no ExportVolume, no
\* MkdirAll.
C11_Case(t) ==
  /\ IsProvision(t) /\ Len(trace[t]) >= 1
  /\ trace[t][1].call = "CreateVolume" /\ ~trace[t][1].ok

C11_CreateFailureIsReturned ==
  \A t \in workers :
    C11_Case(t)
      => /\ Returned(t)
         /\ ret[t].err = CallErr("CreateVolume")
         /\ ret[t].pv = <<>>
         /\ CallNames(t) = <<"CreateVolume">>

C11_Witness ==
  \E t \in workers :
    C11_Case(t) /\ p.quotaEnable /\ p.exportsEnable /\ arg[t].options.Size > 0

\* --------------------------------------------------------------------- C12
\* namespace-name-targetResourceName, written out
C12_Name(o) == o.Namespace \o <<"-">> \o o.Name \o <<"-">> \o o.PVName

\* The configured root path without a trailing slash.
C12_Root ==
  IF Len(p.volumePath) > 1 /\ p.volumePath[Len(p.volumePath)] = "/"
  THEN SubSeq(p.volumePath, 1, Len(p.volumePath) - 1)
  ELSE p.volumePath

C12_RecordIsTagged ==
  \A t \in workers :
    (IsProvision(t) /\ Returned(t) /\ ret[t].pv # <<>>)
      => LET pv == ret[t].pv[1]
         IN  /\ pv.Annotations[AnnIdentity] = p.identity
             /\ pv.Annotations[AnnVolume] = C12_Name(arg[t].options)
             /\ pv.Annotations[AnnVolume] = trace[t][1].name
             /\ trace[t][1].call = "CreateVolume"
             /\ pv.Path = C12_Root \o <<"/">> \o C12_Name(arg[t].options)

\* C12: every record a successful Provision returns carries the
\* provisioner's identity as ownership tag, the volume name
\* namespace-name-targetResourceName that was passed to CreateVolume, and the
\* root path joined with that name as mount path; and the identity never
\* changes after startup.
C12_RecordTaggedIdentityFixed ==
  []C12_RecordIsTagged /\ [][p'.identity = p.identity]_vars

C12_Witness ==
  \E t \in workers :
    /\ IsProvision(t) /\ Returned(t) /\ ret[t].pv # <<>>
    /\ p.volumePath = <<"/","i","/">>
    /\ arg[t].options.Namespace = <<"a","-","a">>
    /\ ret[t].pv[1].Path = <<"/","i","/","a","-","a","-","a","-","p">>

\* --------------------------------------------------------------------- C13
C13_Triple(t) ==
  <<arg[t].options.Namespace, arg[t].options.Name, arg[t].options.PVName>>

\* C13: the backend volume name is a function of (namespace, name,
\* targetResourceName), and requests that differ in any of the three get
\* different names: two Provision calls pass the same name to CreateVolume
\* exactly if their triples are equal.
C13_NamingInjective ==
  \A t \in workers, u \in workers :
    (/\ IsProvision(t) /\ IsProvision(u)
     /\ Made(t, "CreateVolume") /\ Made(u, "CreateVolume"))
      => (C13_Triple(t) = C13_Triple(u) <=> trace[t][1].name = trace[u][1].name)

\* --------------------------------------------------------------------- C14
InProgress(t) == pc[t] \notin {"idle", "returned", "panic"}
AnyFailed(t) == \E i \in 1..Len(trace[t]) : ~trace[t][i].ok

\* C14: with calls for different requests running concurrently, a failed
\* backend call in one call never keeps another call from going on to its
\* completion: the other call can always take its next step.
C14_NoInterference ==
  \A t \in workers, u \in workers :
    (t # u /\ arg[t] # arg[u] /\ AnyFailed(u) /\ InProgress(t))
      => ENABLED CallStep(t)

\* --------------------------------------------------------------------- C15
C15_Required(env) ==
  /\ env.ISI_SERVER # <<>> /\ env.ISI_PATH # <<>>
  /\ env.ISI_USER # <<>> /\ env.ISI_PASS # <<>> /\ env.ISI_GROUP # <<>>

\* C15: startup reaches the client's creation and the serving state only if
\* server, root path, user, password and group are all non-empty; a missing
\* value stops it.  When serving, a missing access path has defaulted to the
\* root path and the flags are disabled unless set.
C15_ServesOnlyIfConfigured ==
  /\ boot.stage \in {"connect", "panic", "serving"} => C15_Required(boot.env)
  /\ boot.stage = "serving" =>
       /\ (boot.env.ISI_ACCESSPATH = <<>> => boot.client.accessPath = boot.env.ISI_PATH)
       /\ (boot.env.ISI_QUOTA_ENABLE = <<>> => ~p.quotaEnable)
       /\ (boot.env.ISI_EXPORTS_ENABLE = <<>> => ~p.exportsEnable)

\* --------------------------------------------------------------------- C16
\* The calls of a whole Provision under the flags, in the order of the code.
C16_Expected ==
  <<"CreateVolume">>
    \o (IF p.quotaEnable THEN <<"SetQuotaSize">> ELSE <<>>)
    \o (IF p.exportsEnable THEN <<"ExportVolume">> ELSE <<>>)
    \o <<"MkdirAll">>

\* C16: a Provision makes its calls in the order CreateVolume, SetQuotaSize
\* (quota enabled, after the capacity check), ExportVolume (export enabled),
\* MkdirAll, then validates the parameters and assembles the record; no call
\* is made twice, none that the flags disable, and none after a call whose
\* failure is propagated (every failure but SetQuotaSize's).
C16_ProvisionOrder ==
  \A t \in workers :
    IsProvision(t)
      => /\ IsPrefix(CallNames(t), C16_Expected)
         /\ \A i \in 1..(Len(trace[t]) - 1) :
              trace[t][i].ok \/ trace[t][i].call = "SetQuotaSize"
         /\ (p.quotaEnable /\ arg[t].options.Size <= 0) => Len(trace[t]) <= 1
         /\ pc[t] \in {"SetQuotaSize", "ExportVolume", "MkdirAll"}
              => C16_Expected[Len(trace[t]) + 1] = pc[t]
         /\ (Returned(t) /\ ret[t].err.text = "invalid parameter")
              => CallNames(t) = C16_Expected /\ LastCall(t).ok
         /\ (Returned(t) /\ ret[t].pv # <<>>)
              => CallNames(t) = C16_Expected /\ LastCall(t).ok

C16_Witness ==
  \E t \in workers :
    /\ IsProvision(t) /\ Returned(t) /\ ret[t].pv # <<>>
    /\ CallNames(t) = <<"CreateVolume", "SetQuotaSize", "ExportVolume", "MkdirAll">>
    /\ ~trace[t][2].ok

\* --------------------------------------------------------------------- C17
\* The calls of worker t's Delete before its DeleteVolume (all its calls
\* while DeleteVolume is pending).
C17_Before(t) ==
  IF Made(t, "DeleteVolume")
  THEN SubSeq(trace[t], 1, Len(trace[t]) - 1)
  ELSE trace[t]

\* The calls the code makes before DeleteVolume under the flags; a quota is
\* cleared when the first call, GetQuota, found one.
C17_ExpectedBefore(t) ==
  (IF p.quotaEnable
   THEN <<"GetQuota">> \o (IF trace[t][1].found THEN <<"ClearQuota">> ELSE <<>>)
   ELSE <<>>)
    \o (IF p.exportsEnable THEN <<"Unexport">> ELSE <<>>)

C18_NoRollback ==
  \A t \in workers :
    IsProvision(t)
      => /\ \A c \in Destructive : ~Made(t, c) /\ pc[t] # c
         /\ (Finished(t) /\ ret[t].pv = <<>> /\ trace[t][1].ok)
              => /\ vol[t].exists /\ vol[t].name = trace[t][1].name
                 /\ (\E i \in 1..Len(trace[t]) :
                       trace[t][i].call = "SetQuotaSize" /\ trace[t][i].ok) => vol[t].quota
                 /\ (\E i \in 1..Len(trace[t]) :
                       trace[t][i].call = "ExportVolume" /\ trace[t][i].ok) => vol[t].export

C18_Witness ==
  \E t \in workers :
    /\ IsProvision(t) /\ Returned(t)
    /\ ret[t].err = ErrInvalidParameter(S_foo)
    /\ vol[t].exists /\ vol[t].quota /\ vol[t].export

\* --------------------------------------------------------------------- C19
\* Worker t deletes the record that its Provision returned.
C19_Case(t) == IsDelete(t) /\ vol[t].provisioned

\* C19: Delete on the record a successful Provision returned, in the same
\* process, passes the three checks; each of its calls names the volume that
\* Provision passed to CreateVolume; and when all its calls succeed, the
\* volume, its export and its quota are gone.
C19_RoundTrip ==
  \A t \in workers :
    C19_Case(t)
      => /\ Owned(t) /\ HasVolumeName(t)
         /\ Returned(t) => ret[t].err = NoErr
         /\ \A i \in 1..Len(trace[t]) : trace[t][i].name = vol[t].name
         /\ (Returned(t) /\ \A i \in 1..Len(trace[t]) : trace[t][i].ok)
              => ~vol[t].exists /\ ~vol[t].export /\ ~vol[t].quota

C19_Witness ==
  \E t \in workers :
    /\ C19_Case(t) /\ Returned(t)
    /\ CallNames(t) = <<"GetQuota", "ClearQuota", "Unexport", "DeleteVolume">>
    /\ \A i \in 1..Len(trace[t]) : trace[t][i].ok
    /\ vol[t].name = <<"a","-","a","-","a","-","p","-","a">>

\* --------------------------------------------------------------------- C20
\* C20: in a Delete with quota enabled, ClearQuota is called exactly if
\* GetQuota returned a descriptor; when it returned none, also when it
\* failed, Delete reports no error for that, clears nothing, and goes on to
\* Unexport (if enabled) and DeleteVolume.
C20_ClearQuotaIffFound ==
  \A t \in workers :
    (IsDelete(t) /\ p.quotaEnable /\ Len(trace[t]) >= 1)
      => LET g == trace[t][1]
             after == IF p.exportsEnable THEN "Unexport" ELSE "DeleteVolume"
         IN  /\ g.call = "GetQuota"
             /\ g.found =>
                  IF Len(trace[t]) = 1 THEN pc[t] = "ClearQuota"
                  ELSE trace[t][2].call = "ClearQuota"
             /\ ~g.found =>
                  /\ ~Made(t, "ClearQuota") /\ pc[t] # "ClearQuota"
                  /\ IF Len(trace[t]) = 1 THEN pc[t] = after
                     ELSE trace[t][2].call = after
                  /\ Returned(t) => ret[t].err = NoErr
                  /\ pc[t] = "panic" =>
                       LastCall(t).call \in {"Unexport", "DeleteVolume"}

C20_Witness ==
  \E t \in workers :
    /\ IsDelete(t) /\ p.quotaEnable /\ p.exportsEnable
    /\ Returned(t) /\ ret[t].err = NoErr
    /\ CallNames(t) = <<"GetQuota", "Unexport", "DeleteVolume">>
    /\ ~trace[t][1].ok

====
